---- MODULE Spec2Model ----
(***************************************************************************)
(* Model of hstd/neighbor.py: the four neighbor queries                    *)
(* (neighbors_on_position, neighbors_in_radius, neighbors_in_front,        *)
(* neighbors_behind), their predicates, and the lazy filter objects they   *)
(* return.  A call either raises at once or returns a filter; the filter   *)
(* is then consumed one candidate at a time.                               *)
(***************************************************************************)
EXTENDS Integers, Sequences, FiniteSets, TLC

\* ------------------------------------------------------------------ bounds
MaxNeighbors == 3   \* longest candidate sequence built from Pool
MaxCoord == 1       \* candidate coordinates of one-element sequences
MaxDir == 1         \* direction components
MaxRadius == 2      \* max_radius and min_radius range over 0..MaxRadius

\* ------------------------------------------------------------ Python values
\* An optional list: None, or a list (possibly empty).
None == [none |-> TRUE, v |-> <<>>]
Some(s) == [none |-> FALSE, v |-> s]

\* Python truthiness of `not x` for x None or a list.
Falsy(x) == x.none \/ Len(x.v) = 0

\* Outcome of evaluating a predicate on one candidate: a bool or a raised error.
Ok(b) == [ok |-> TRUE, val |-> b, err |-> "none"]
Raise(e) == [ok |-> FALSE, val |-> FALSE, err |-> e]

pos_error == "agent must have a position"
dir_error == "agent must have a direction"

\* An agent record maps field names (strings) to values.  Subscripting it
\* with an integer names no field, so the lookup raises KeyError.
GetIndex(m, ind) == Raise("KeyError")

Abs(x) == IF x < 0 THEN -x ELSE x

\* ------------------------------------------------------ distance primitives
\* A distance is n, or sqrt(n) when root is TRUE.
Num(n) == [root |-> FALSE, n |-> n]
Sqrt(n) == [root |-> TRUE, n |-> n]

\* d <= r and d >= r for a distance d and an integer r.
LessEq(d, r) == IF d.root THEN r >= 0 /\ d.n <= r * r ELSE d.n <= r
GreaterEq(d, r) == IF d.root THEN r <= 0 \/ d.n >= r * r ELSE d.n >= r

RECURSIVE SumAbs(_, _, _)
SumAbs(a, b, i) == IF i > Len(a) THEN 0 ELSE Abs(a[i] - b[i]) + SumAbs(a, b, i + 1)

RECURSIVE SumSq(_, _, _)
SumSq(a, b, i) ==
  IF i > Len(a) THEN 0 ELSE (a[i] - b[i]) * (a[i] - b[i]) + SumSq(a, b, i + 1)

RECURSIVE MaxAbs(_, _, _)
MaxAbs(a, b, i) ==
  IF i > Len(a) THEN 0
  ELSE LET rest == MaxAbs(a, b, i + 1)
           here == Abs(a[i] - b[i])
       IN IF here > rest THEN here ELSE rest

manhattan_distance(a, b) == Num(SumAbs(a, b, 1))
euclidean_distance(a, b) == Sqrt(SumSq(a, b, 1))
euclidean_squared_distance(a, b) == Num(SumSq(a, b, 1))
chebyshev_distance(a, b) == Num(MaxAbs(a, b, 1))

\* The dispatch table of neighbors_in_radius.
FuncNames == {"manhattan", "euclidean", "euclidean_squared", "chebyshev"}

func(name, a, b) ==
  CASE name = "manhattan" -> manhattan_distance(a, b)
    [] name = "euclidean" -> euclidean_distance(a, b)
    [] name = "euclidean_squared" -> euclidean_squared_distance(a, b)
    [] name = "chebyshev" -> chebyshev_distance(a, b)

\* --------------------------------------------------------------- predicates
\* reduce(lambda a, b: bool(a and b), xs) over a non-empty list of bools.
RECURSIVE ReduceAnd(_, _, _)
ReduceAnd(acc, xs, i) ==
  IF i > Len(xs) THEN acc ELSE ReduceAnd(acc /\ xs[i], xs, i + 1)

on_position(a, neighbor) ==
  LET pos == a.position.v
      items == [ind \in 1..Len(pos) |-> GetIndex(neighbor, ind - 1)]
  IN IF \E ind \in 1..Len(pos) : ~items[ind].ok
       THEN Raise(items[CHOOSE ind \in 1..Len(pos) :
                          /\ ~items[ind].ok
                          /\ \A j \in 1..(ind - 1) : items[j].ok].err)
       ELSE LET pos_equal == [ind \in 1..Len(pos) |-> pos[ind] = items[ind].val]
            IN Ok(ReduceAnd(pos_equal[1], pos_equal, 2))

in_radius_strict(a, neighbor, maxr, minr, df, z) ==
  IF df \notin FuncNames THEN Raise("KeyError")
  ELSE LET d == func(df, neighbor.position.v, a.position.v)
       IN Ok(~GreaterEq(d, maxr) /\ GreaterEq(d, minr))

in_radius_flat(a, neighbor, maxr, minr, df, z) ==
  IF df \notin FuncNames THEN Raise("KeyError")
  ELSE LET np == neighbor.position.v
           pos == a.position.v
           d == IF z THEN func(df, np, pos)
                ELSE func(df, SubSeq(np, 1, 2), SubSeq(pos, 1, 2))
       IN Ok(LessEq(d, maxr) /\ GreaterEq(d, minr))

in_radius(a, neighbor, maxr, minr, df, z) ==
  IF df \notin FuncNames THEN Raise("KeyError")
  ELSE LET pos == a.position.v
           d == func(df, neighbor.position.v, pos)
       IN Ok(LessEq(d, maxr) /\ GreaterEq(d, minr))

in_front_planar_ge(a, neighbor) ==
  LET a_pos == a.position.v
      n_pos == neighbor.position.v
      a_dir == a.direction.v
      D == a_dir[1] * (n_pos[1] - a_pos[1]) + a_dir[2] * (n_pos[2] - a_pos[2])
           + a_dir[3] * (n_pos[3] - a_pos[3])
  IN D >= 0

in_front_planar(a, neighbor) ==
  LET a_pos == a.position.v
      n_pos == neighbor.position.v
      a_dir == a.direction.v
      dx == n_pos[1] - a_pos[1]
      dy == n_pos[2] - a_pos[2]
      dz == n_pos[3] - a_pos[3]
      D == a_dir[1] * dx + a_dir[2] * dy + a_dir[3] * dz
  IN D > 0

\* reduce(lambda a, b: not bool(a or b), xs): the accumulator starts as the
\* truthiness of xs[0] and is re-negated at every further element.
RECURSIVE ReduceNotOr(_, _, _)
ReduceNotOr(acc, xs, i) ==
  IF i > Len(xs) THEN acc ELSE ReduceNotOr(~(acc \/ xs[i] # 0), xs, i + 1)

is_linear(a, neighbor, front) ==
  LET a_pos == a.position.v
      n_pos == neighbor.position.v
      dx == n_pos[1] - a_pos[1]
      dy == n_pos[2] - a_pos[2]
      dz == n_pos[3] - a_pos[3]
      ax == a.direction.v[1]
      ay == a.direction.v[2]
      az == a.direction.v[3]
      cross_product == <<dy * az - dz * ay, dx * az - dz * ax, dx * ay - dy * ax>>
      all_zero == ReduceNotOr(cross_product[1] # 0, cross_product, 2)
      same_dir == (dx > 0 /\ ax > 0) \/ (dy > 0 /\ ay > 0) \/ (dz > 0 /\ az > 0)
  IN IF ~all_zero THEN FALSE ELSE same_dir = front

\* The lambdas handed to filter() by neighbors_in_front / neighbors_behind.
in_front_filter(a, n, col) ==
  IF col THEN Ok(is_linear(a, n, TRUE)) ELSE Ok(in_front_planar(a, n))

Reversed(a) ==
  [a EXCEPT !.direction = Some([k \in 1..Len(a.direction.v) |-> -a.direction.v[k]])]

behind_filter_reversed(a, n, col) ==
  IF col THEN Ok(is_linear(a, n, FALSE)) ELSE Ok(in_front_planar(Reversed(a), n))

behind_filter(a, n, col) ==
  IF col THEN Ok(is_linear(a, n, FALSE)) ELSE Ok(~in_front_planar(a, n))

\* ------------------------------------------------------------------- inputs
Cube(m) == {<<x, y, z>> : x \in -m..m, y \in -m..m, z \in -m..m}

RefPositions == {<<0, 0, 0>>, <<1, -1, 0>>}
Pool == {<<2, 0, 0>>, <<-2, 0, 0>>, <<0, 2, 0>>, <<1, 0, 0>>}

Candidate(p) == [position |-> Some(p), direction |-> None]

SeqsUpTo(S, n) == UNION {[1..k -> S] : k \in 0..n}

NeighborSeqs ==
  {[i \in DOMAIN s |-> Candidate(s[i])] : s \in SeqsUpTo(Pool, MaxNeighbors)}
  \cup {<<Candidate(p)>> : p \in Cube(MaxCoord)}

OptPositions == {None, Some(<<>>)} \cup {Some(p) : p \in RefPositions}
OptDirections == {None, Some(<<>>)} \cup {Some(d) : d \in Cube(MaxDir)}

PosOnlyAgents == {[position |-> p, direction |-> None] : p \in OptPositions}
Agents == {[position |-> p, direction |-> d] : p \in OptPositions, d \in OptDirections}

Radii == 0..MaxRadius
DistanceFunctionArgs == FuncNames \cup {"minkowski"}

\* -------------------------------------------------------------------- state
VARIABLES pc, fn, agent, neighbors, max_radius, min_radius,
          distance_function, z_axis, colinear, idx, out, verdicts, error

vars == <<pc, fn, agent, neighbors, max_radius, min_radius,
          distance_function, z_axis, colinear, idx, out, verdicts, error>>

Init ==
  /\ pc = "idle"
  /\ fn = "none"
  /\ agent = [position |-> None, direction |-> None]
  /\ neighbors = <<>>
  /\ max_radius = 1
  /\ min_radius = 0
  /\ distance_function = "euclidean"
  /\ z_axis = FALSE
  /\ colinear = FALSE
  /\ idx = 1
  /\ out = <<>>
  /\ verdicts = <<>>
  /\ error = "none"

\* The filter object a successful call returns: nothing evaluated yet.
NewFilter == idx' = 1 /\ out' = <<>> /\ verdicts' = <<>>

neighbors_on_position(a, ns) ==
  /\ pc = "idle"
  /\ fn' = "neighbors_on_position" /\ agent' = a /\ neighbors' = ns
  /\ IF Falsy(a.position)
       THEN pc' = "raised" /\ error' = pos_error
       ELSE pc' = "iterating" /\ error' = "none"
  /\ NewFilter
  /\ UNCHANGED <<max_radius, min_radius, distance_function, z_axis, colinear>>

neighbors_in_radius(a, ns, maxr, minr, df, z) ==
  /\ pc = "idle"
  /\ fn' = "neighbors_in_radius" /\ agent' = a /\ neighbors' = ns
  /\ max_radius' = maxr /\ min_radius' = minr
  /\ distance_function' = df /\ z_axis' = z
  /\ IF Falsy(a.position)
       THEN pc' = "raised" /\ error' = pos_error
       ELSE pc' = "iterating" /\ error' = "none"
  /\ NewFilter
  /\ UNCHANGED colinear

neighbors_in_front_unchecked(a, ns, col) ==
  /\ pc = "idle"
  /\ fn' = "neighbors_in_front" /\ agent' = a /\ neighbors' = ns /\ colinear' = col
  /\ IF Falsy(a.direction)
       THEN pc' = "raised" /\ error' = dir_error
       ELSE pc' = "iterating" /\ error' = "none"
  /\ NewFilter
  /\ UNCHANGED <<max_radius, min_radius, distance_function, z_axis>>

neighbors_in_front(a, ns, col) ==
  /\ pc = "idle"
  /\ fn' = "neighbors_in_front" /\ agent' = a /\ neighbors' = ns /\ colinear' = col
  /\ IF Falsy(a.position)
       THEN pc' = "raised" /\ error' = pos_error
       ELSE IF Falsy(a.direction)
              THEN pc' = "raised" /\ error' = dir_error
              ELSE pc' = "iterating" /\ error' = "none"
  /\ NewFilter
  /\ UNCHANGED <<max_radius, min_radius, distance_function, z_axis>>

neighbors_behind(a, ns, col) ==
  /\ pc = "idle"
  /\ fn' = "neighbors_behind" /\ agent' = a /\ neighbors' = ns /\ colinear' = col
  /\ IF Falsy(a.position)
       THEN pc' = "raised" /\ error' = pos_error
       ELSE IF Falsy(a.direction)
              THEN pc' = "raised" /\ error' = dir_error
              ELSE pc' = "iterating" /\ error' = "none"
  /\ NewFilter
  /\ UNCHANGED <<max_radius, min_radius, distance_function, z_axis>>

\* The predicate the returned filter applies to a candidate.
Predicate(n) ==
  CASE fn = "neighbors_on_position" -> on_position(agent, n)
    [] fn = "neighbors_in_radius" ->
         in_radius(agent, n, max_radius, min_radius, distance_function, z_axis)
    [] fn = "neighbors_in_front" -> in_front_filter(agent, n, colinear)
    [] fn = "neighbors_behind" -> behind_filter(agent, n, colinear)

\* The consumer pulls on the filter: the next candidate is evaluated, and is
\* yielded when the predicate holds; an error in the predicate propagates.
FilterNext ==
  /\ pc = "iterating"
  /\ idx <= Len(neighbors)
  /\ LET n == neighbors[idx]
         r == Predicate(n)
     IN IF r.ok
          THEN /\ out' = IF r.val THEN Append(out, n) ELSE out
               /\ verdicts' = Append(verdicts, r.val)
               /\ idx' = idx + 1
               /\ UNCHANGED <<pc, error>>
          ELSE /\ pc' = "raised"
               /\ error' = r.err
               /\ UNCHANGED <<out, verdicts, idx>>
  /\ UNCHANGED <<fn, agent, neighbors, max_radius, min_radius,
                 distance_function, z_axis, colinear>>

\* The candidate sequence is exhausted: the filter stops.
FilterStop ==
  /\ pc = "iterating"
  /\ idx > Len(neighbors)
  /\ pc' = "exhausted"
  /\ UNCHANGED <<fn, agent, neighbors, max_radius, min_radius,
                 distance_function, z_axis, colinear, idx, out, verdicts, error>>

CallOnPosition ==
  /\ pc = "idle"
  /\ \E a \in PosOnlyAgents, ns \in NeighborSeqs : neighbors_on_position(a, ns)

CallInRadius ==
  /\ pc = "idle"
  /\ \E a \in PosOnlyAgents, ns \in NeighborSeqs, maxr \in Radii, minr \in Radii,
     df \in DistanceFunctionArgs, z \in BOOLEAN :
       neighbors_in_radius(a, ns, maxr, minr, df, z)

CallInFront ==
  /\ pc = "idle"
  /\ \E a \in Agents, ns \in NeighborSeqs, col \in BOOLEAN : neighbors_in_front(a, ns, col)

CallBehind ==
  /\ pc = "idle"
  /\ \E a \in Agents, ns \in NeighborSeqs, col \in BOOLEAN : neighbors_behind(a, ns, col)

Next ==
  \/ CallOnPosition
  \/ CallInRadius
  \/ CallInFront
  \/ CallBehind
  \/ FilterNext
  \/ FilterStop

Spec == Init /\ [][Next]_vars

TypeOK ==
  /\ pc \in {"idle", "iterating", "exhausted", "raised"}
  /\ idx \in 1..(Len(neighbors) + 1)
  /\ Len(verdicts) = idx - 1

\* ------------------------------------------------------- claim vocabulary
\* The candidates the filter has evaluated so far, in input order.
Evaluated == SubSeq(neighbors, 1, Len(verdicts))

HasPosition == ~Falsy(agent.position)
HasDirection == ~Falsy(agent.direction)
Orientation == fn \in {"neighbors_in_front", "neighbors_behind"}

\* Displacement of candidate c from the reference agent, and the vector
\* algebra the claims speak of.
Disp(c) == [k \in 1..3 |-> c.position.v[k] - agent.position.v[k]]
Dot(u, w) == u[1] * w[1] + u[2] * w[2] + u[3] * w[3]
Cross(u, w) ==
  <<u[2] * w[3] - u[3] * w[2], u[3] * w[1] - u[1] * w[3], u[1] * w[2] - u[2] * w[1]>>
Zero3 == <<0, 0, 0>>

\* d = (p/q) * w for some positive rational p/q.
PositiveMultiple(d, w) ==
  \E p \in 1..4, q \in 1..4 : \A k \in 1..3 : q * d[k] = p * w[k]
NegativeMultiple(d, w) ==
  \E p \in 1..4, q \in 1..4 : \A k \in 1..3 : q * d[k] = -(p * w[k])

\* min_radius <= dist(A.position, c.position) <= max_radius.
WithinRadius(c) ==
  LET d == func(distance_function, agent.position.v, c.position.v)
  IN GreaterEq(d, min_radius) /\ LessEq(d, max_radius)

RECURSIVE IsSubsequence(_, _)
IsSubsequence(s, t) ==
  IF s = <<>> THEN TRUE
  ELSE IF t = <<>> THEN FALSE
  ELSE IF Head(s) = Head(t) THEN IsSubsequence(Tail(s), Tail(t))
  ELSE IsSubsequence(s, Tail(t))

\* ------------------------------------------------------------------ claims

\* C1: neighbors_in_radius, for a reference agent with a position and any of
\* the four distance functions, never raises and yields exactly the
\* candidates c with min_radius <= dist(A.position, c.position) <= max_radius,
\* both bounds inclusive; an exhausted filter has evaluated every candidate.
C1_RadiusExact ==
  (fn = "neighbors_in_radius" /\ HasPosition /\ distance_function \in FuncNames)
    => /\ pc # "raised"
       /\ out = SelectSeq(Evaluated, WithinRadius)
       /\ pc = "exhausted" => Len(verdicts) = Len(neighbors)

C1_Witness ==
  /\ fn = "neighbors_in_radius" /\ pc = "exhausted" /\ max_radius > min_radius
  /\ \E i, j, k \in 1..Len(neighbors) :
       /\ func(distance_function, agent.position.v, neighbors[i].position.v)
            \in {Num(max_radius), Sqrt(max_radius * max_radius)}
       /\ verdicts[i]
       /\ func(distance_function, agent.position.v, neighbors[j].position.v)
            \in {Num(min_radius), Sqrt(min_radius * min_radius)}
       /\ verdicts[j]
       /\ ~verdicts[k]

\* C2: neighbors_on_position, for a reference agent with a non-empty position
\* and well-formed candidates, never raises and yields exactly the candidates
\* whose position equals the reference position component-wise.
C2_OnPositionExact ==
  (fn = "neighbors_on_position" /\ HasPosition)
    => /\ pc # "raised"
       /\ out = SelectSeq(Evaluated, LAMBDA c : c.position.v = agent.position.v)
       /\ pc = "exhausted" => Len(verdicts) = Len(neighbors)

\* C3: with colinear=False, neighbors_in_front yields exactly the candidates
\* with D = direction . (candidate.position - agent.position) > 0; for
\* position [0,0,0], direction [1,0,0] and candidates [2,0,0], [-2,0,0],
\* [0,2,0] the result is only the candidate at [2,0,0].
ScenarioAgent == [position |-> Some(<<0, 0, 0>>), direction |-> Some(<<1, 0, 0>>)]
ScenarioNeighbors ==
  <<Candidate(<<2, 0, 0>>), Candidate(<<-2, 0, 0>>), Candidate(<<0, 2, 0>>)>>

C3_InFrontPlanar ==
  (fn = "neighbors_in_front" /\ ~colinear /\ HasPosition /\ HasDirection)
    => /\ pc # "raised"
       /\ out = SelectSeq(Evaluated, LAMBDA c : Dot(agent.direction.v, Disp(c)) > 0)
       /\ pc = "exhausted" => Len(verdicts) = Len(neighbors)
       /\ (pc = "exhausted" /\ agent = ScenarioAgent /\ neighbors = ScenarioNeighbors)
            => out = <<Candidate(<<2, 0, 0>>)>>

C3_Witness ==
  /\ fn = "neighbors_in_front" /\ ~colinear /\ pc = "exhausted"
  /\ agent = ScenarioAgent /\ neighbors = ScenarioNeighbors

\* C4: with colinear=True and a non-zero direction, a candidate whose
\* displacement is a positive multiple of the direction is yielded by
\* neighbors_in_front and not by neighbors_behind; a negative multiple is
\* yielded by neighbors_behind and not by neighbors_in_front.
C4_ColinearAxis ==
  (Orientation /\ colinear /\ HasPosition /\ HasDirection
     /\ agent.direction.v # Zero3)
    => \A i \in 1..Len(verdicts) :
         LET d == Disp(neighbors[i])
         IN /\ PositiveMultiple(d, agent.direction.v)
                 => verdicts[i] = (fn = "neighbors_in_front")
            /\ NegativeMultiple(d, agent.direction.v)
                 => verdicts[i] = (fn = "neighbors_behind")

\* C5: with colinear=True, a candidate whose displacement has a non-zero
\* cross product with the direction is yielded neither by neighbors_in_front
\* nor by neighbors_behind.
C5_OffAxisExcluded ==
  (Orientation /\ colinear /\ HasPosition /\ HasDirection)
    => \A i \in 1..Len(verdicts) :
         Cross(Disp(neighbors[i]), agent.direction.v) # Zero3 => ~verdicts[i]

\* C6: a call with a None or empty position raises the position error, and
\* an orientation call with a position but a None or empty direction raises
\* the direction error; either is raised by the call itself, before any
\* candidate is evaluated, whatever the candidate sequence.
C6_PreconditionErrors ==
  pc # "idle"
    => /\ ~HasPosition
            => pc = "raised" /\ error = pos_error /\ verdicts = <<>> /\ out = <<>>
       /\ (Orientation /\ HasPosition /\ ~HasDirection)
            => pc = "raised" /\ error = dir_error /\ verdicts = <<>> /\ out = <<>>

C6_Witness ==
  /\ fn = "neighbors_in_front" /\ pc = "raised" /\ error = pos_error
  /\ agent.position = Some(<<>>) /\ HasDirection /\ Len(neighbors) = MaxNeighbors

\* C7: neighbors_in_radius with an unknown distance_function name fails with
\* a key error at the call, for every candidate sequence including the empty
\* one; no filter is returned.
C7_UnknownNameAbortsAtCall ==
  (fn = "neighbors_in_radius" /\ HasPosition /\ distance_function \notin FuncNames)
    => pc = "raised" /\ error = "KeyError" /\ verdicts = <<>>

\* C8: z_axis has no effect on neighbors_in_radius: every verdict reached,
\* and every error raised, is the one the call with the opposite z_axis gives.
C8_ZAxisNoEffect ==
  fn = "neighbors_in_radius"
    => /\ \A i \in 1..Len(verdicts) :
            in_radius(agent, neighbors[i], max_radius, min_radius,
                      distance_function, ~z_axis) = Ok(verdicts[i])
       /\ (pc = "raised" /\ HasPosition)
            => in_radius(agent, neighbors[idx], max_radius, min_radius,
                         distance_function, ~z_axis) = Raise(error)

C8_Witness ==
  /\ fn = "neighbors_in_radius" /\ pc = "exhausted" /\ z_axis
  /\ \E i \in 1..Len(neighbors) :
       /\ neighbors[i].position.v[3] # agent.position.v[3]
       /\ neighbors[i].position.v[1] = agent.position.v[1]
       /\ neighbors[i].position.v[2] = agent.position.v[2]
       /\ ~verdicts[i]

\* C9: for each query function and every valid call, the call does not
\* raise, every candidate is evaluated once, and the yielded agents form an
\* order-preserving subsequence of the candidates; an empty candidate
\* sequence gives an empty result.
ValidCall ==
  /\ pc # "idle"
  /\ HasPosition
  /\ Orientation => HasDirection
  /\ fn = "neighbors_in_radius" => distance_function \in FuncNames

C9_OrderPreservingSubsequence ==
  ValidCall
    => /\ pc # "raised"
       /\ IsSubsequence(out, neighbors)
       /\ pc = "exhausted" => Len(verdicts) = Len(neighbors)
       /\ neighbors = <<>> => out = <<>>

\* C10: with colinear=False, each candidate is yielded by exactly one of
\* neighbors_in_front and neighbors_behind, and a candidate with D = 0 is
\* yielded by neighbors_behind.
C10_PlanarPartition ==
  (Orientation /\ ~colinear /\ HasPosition /\ HasDirection)
    => \A i \in 1..Len(verdicts) :
         LET other == IF fn = "neighbors_in_front"
                        THEN behind_filter(agent, neighbors[i], FALSE)
                        ELSE in_front_filter(agent, neighbors[i], FALSE)
         IN /\ other = Ok(~verdicts[i])
            /\ Dot(agent.direction.v, Disp(neighbors[i])) = 0
                 => verdicts[i] = (fn = "neighbors_behind")

C10_Witness ==
  /\ fn = "neighbors_behind" /\ ~colinear /\ pc = "exhausted"
  /\ agent.direction.v # Zero3
  /\ \E i, j \in 1..Len(neighbors) :
       /\ Dot(agent.direction.v, Disp(neighbors[i])) = 0 /\ verdicts[i]
       /\ Dot(agent.direction.v, Disp(neighbors[j])) > 0 /\ ~verdicts[j]

====
